---- MODULE Spec2Model ----
(***************************************************************************)
(* FloppyForge: raw floppy image writer and zero-fill wipe.                *)
(* Model of FloppyForgeCore.write_image / format_zero_fill on the Windows  *)
(* and Unix backends (src/floppyforge_core.py) together with the caller's  *)
(* stop flag (src/floppyforge_gui.py).                                     *)
(*                                                                         *)
(* One invocation of the core runs as a sequence of steps; `pc` is the     *)
(* position of the calling thread inside the core.  Every call to the      *)
(* operating system or to a callback is one step whose outcome the         *)
(* environment chooses.  `trace` records the calls of the current          *)
(* invocation in the order they were issued.                               *)
(***************************************************************************)
EXTENDS Integers, Sequences, FiniteSets, TLC

\* ------------------------------------------------------------------ bounds
MaxLen == 3          \* longest source image / largest wipe size, in bytes
MaxChunk == 2        \* largest configured chunk size, in bytes
MaxOps == 2          \* number of invocations on one core object
MaxWinError == 2     \* largest error code a failed FlushFileBuffers reports

\* --------------------------------------------------------------- constants
ERROR_INVALID_FUNCTION == 1      \* WinError 1, tolerated by _flush
FLOPPY_720K == 737280
FLOPPY_1440K == 1474560
FLOPPY_2880K == 2949120
AMIGA_ADF_880K == 901120

VARIABLES
    plat,            \* platform_name(): "windows", "linux" or "macos"
    chunk_size,      \* self.chunk_size
    op,              \* "none", "write" (write_image) or "format" (format_zero_fill)
    src,             \* bytes of the source image (write_image)
    size,            \* caller-supplied size (format_zero_fill)
    total,           \* local `total` of write_image (image_path.stat().st_size)
    pc,              \* position inside the core
    fpos,            \* read position of the source file object f
    buf,             \* local `buf`: the chunk about to be written
    written_total,   \* local `written_total`
    target,          \* local `device` (the resolved path) of write_image / format_zero_fill
    call,            \* a pure function under evaluation: its name and arguments
    ret,             \* what that function returned
    device,          \* bytes the device accepted during this invocation, in order
    stop_requested,  \* the caller's flag (FloppyForgeApp._stop_requested)
    stop_at_call,    \* value of the flag when the invocation was entered
    exc,             \* exception in flight / raised to the caller: its kind and
                     \* the error code it carries (NoExc if none)
    trace,           \* calls issued by this invocation, in order
    nops,            \* invocations made so far on this core object
    recording,       \* whether `trace` is being kept
    gui              \* the GUI around the core: widgets, worker thread, event queue

vars == <<plat, chunk_size, op, src, size, total, pc, fpos, buf, written_total,
          device, stop_requested, stop_at_call, exc, trace, nops,
          target, call, ret,
                   recording, gui>>

\* ----------------------------------------------------------------- helpers
Platforms == {"windows", "linux", "macos"}

Min(a, b) == IF a <= b THEN a ELSE b

\* one entry of `trace`: the call, whether it returned without error, and
\* two numbers whose meaning depends on the call (stop_cb: a = 1 when it returned
\* true; read: a = bytes asked, b = bytes read; write: a = bytes requested,
\* b = bytes accepted; progress_cb: a = written, b = total; flush: a = error code)
Ev(e, ok, a, b) == [ev |-> e, ok |-> ok, a |-> a, b |-> b]

IsWindows == plat = "windows"

\* the source image of length L; byte i carries the value i, so that a
\* missing, repeated or displaced byte shows in `device`
Image(L) == [i \in 1..L |-> i]

\* f.read(self.chunk_size): at most n bytes starting at the file position,
\* everything up to the end of the file when n is negative
ReadChunk(data, pos, n) ==
    IF n < 0 THEN SubSeq(data, pos + 1, Len(data))
    ELSE SubSeq(data, pos + 1, Min(pos + n, Len(data)))

\* mutant: the chunk is not clamped to the bytes that remain
FormatChunkLen_NoClamp(cs, sz, wt) == cs

\* n = min(self.chunk_size, size - written_total)
FormatChunkLen(cs, sz, wt) == Min(cs, sz - wt)

\* b"\x00" * n (an empty buffer when n <= 0)
Zeros(n) == [i \in 1..n |-> 0]

\* what a successful os.write / WriteFile of n bytes may report as accepted
AcceptCounts(n) == IF n >= 1 THEN 1..n ELSE {0}

\* written_total += w, with w the count the write reported
Accumulate(wt, w, req) == wt + w

\* mutant: the counter is not reset and carries over from the previous invocation
InitWritten_Stale == written_total

\* written_total = 0 at the head of each transfer
InitWritten == 0

\* mutant: the flag is sampled once when the operation is entered
StopCb_AtCall == stop_at_call

\* stop_cb(): FloppyForgeApp._stop_cb returns the flag
StopCb == stop_requested

\* mutant: the result of DeviceIoControl is ignored
IoctlRaises_Never(ok) == FALSE

\* _device_ioctl: `if not ok: raise`
IoctlRaises(ok) == ~ok

\* outcome of FlushFileBuffers: 0 when it succeeded, else ctypes.get_last_error()
FlushCodes == 0..MaxWinError

\* mutant: the next error code is tolerated as well
FlushRaises_Lenient(code) == code # 0 /\ code \notin {ERROR_INVALID_FUNCTION, ERROR_INVALID_FUNCTION + 1}

\* _flush: a failed FlushFileBuffers raises unless the code is WinError 1
FlushRaises(code) == code # 0 /\ code # ERROR_INVALID_FUNCTION

\* raise OSError(err, ...): the error carries the code FlushFileBuffers left
FlushErrno(code) == code

\* mutant: no finally clause, the try block is left without teardown
FinallyPc_None == "done"

\* where control goes when the try block is left: the finally clause
FinallyPc == IF IsWindows THEN "unlock" ELSE "close"

\* mutant: the Unix backend goes on without os.fsync
SyncPc_NoSync == IF IsWindows THEN "flush" ELSE "log_done"

\* the step after the transfer loop: _flush(handle) / os.fsync(fd)
SyncPc == IF IsWindows THEN "flush" ELSE "fsync"

\* mutant: the write loop reads the next chunk without polling stop_cb
LoopTopPc_NoPoll(o) == IF o = "format" THEN "test" ELSE "read"

\* head of the loop: `while True:` polls at once, `while written_total < size:` tests first
LoopTopPc(o) == IF o = "format" THEN "test" ELSE "poll"

\* total passed to progress_cb
Total == IF op = "format" THEN size ELSE total

\* an exception: its kind and the error code it carries (0 when the model
\* does not follow the code of that kind of error)
Exc(n, c) == [name |-> n, code |-> c]

\* no exception
NoExc == Exc("none", 0)

\* outcome seen by the caller once the invocation has returned or raised
Result == IF pc = "done" THEN (IF exc = NoExc THEN "ok" ELSE exc.name) ELSE "running"

Log(e) == trace' = IF recording THEN Append(trace, e) ELSE trace

\* an exception raised inside the try block
Raise(e) == exc' = Exc(e, 0) /\ pc' = FinallyPc

\* ------------------------------------------------- resolver and discovery
\* Strings the code takes apart or builds are sequences of pieces:
\* "win32" is <<"win", "32">>, "/dev/fd0" is <<"/dev/", "fd0">>,
\* "/dev/rdisk2" is <<"/dev/r", "disk", "2">>.
StartsWith(s, p) == Len(s) >= Len(p) /\ SubSeq(s, 1, Len(p)) = p

\* values of sys.platform
SysPlatforms == {<<"win", "32">>, <<"darwin">>, <<"linux">>, <<"freebsd", "13">>}

\* platform_name()
PlatformName(sp) ==
    IF StartsWith(sp, <<"win">>) THEN "windows"
    ELSE IF sp = <<"darwin">> THEN "macos"
    ELSE "linux"

\* str.upper() on the characters a drive letter is made of
Upper(c) == CASE c = "a" -> "A" [] c = "b" -> "B" [] OTHER -> c

\* str.strip(): leading and trailing blanks removed
RECURSIVE Strip(_)
Strip(t) ==
    IF t = << >> THEN t
    ELSE IF Head(t) = " " THEN Strip(Tail(t))
    ELSE IF t[Len(t)] = " " THEN Strip(SubSeq(t, 1, Len(t) - 1))
    ELSE t

\* drive_letter.upper().strip()
NormDrive(d) == Strip([i \in 1..Len(d) |-> Upper(d[i])])

\* drive_device_path_windows: fr"\\.\{drive}:"
drive_device_path_windows(drive) == <<"\\\\.\\">> \o drive \o <<":">>

\* candidates = ["/dev/fd0", "/dev/floppy/0"] if drive_letter == "A" else [...]
Candidates(drive) ==
    IF drive = <<"A">>
      THEN << <<"/dev/", "fd0">>, <<"/dev/", "floppy/0">> >>
      ELSE << <<"/dev/", "fd1">>, <<"/dev/", "floppy/1">> >>

\* the sizes discovery accepts
FloppySizes_No880K == {FLOPPY_720K, FLOPPY_1440K, FLOPPY_2880K}

FloppySizes == {FLOPPY_720K, FLOPPY_1440K, FLOPPY_2880K, AMIGA_ADF_880K}

\* a whitespace-separated field of an lsblk row, or a plist value: a number
\* (int(...) succeeds, isinstance(..., int) holds) or some other text
Num(v) == [num |-> TRUE, v |-> v, s |-> ""]
Txt(t) == [num |-> FALSE, v |-> 0, s |-> t]

\* result of a discovery function: a path, None, or an exception
Found(p) == [found |-> TRUE, path |-> p, raised |-> "none"]
NotFound == [found |-> FALSE, path |-> << >>, raised |-> "none"]
Raised(e) == [found |-> FALSE, path |-> << >>, raised |-> e]

\* the loop over lines[1:] of _linux_find_floppy_sized_block_device
RECURSIVE LinuxScan(_)
LinuxScan(rows) ==
    IF rows = << >> THEN NotFound
    ELSE LET parts == Head(rows) IN
         IF Len(parts) < 5 THEN LinuxScan(Tail(rows))
         ELSE IF ~(parts[2].num /\ parts[3].num /\ parts[5].num) THEN LinuxScan(Tail(rows))
         ELSE IF parts[4] # Txt("disk") \/ parts[3].v # 1 \/ parts[5].v # 0
                THEN LinuxScan(Tail(rows))
         ELSE IF parts[2].v \in FloppySizes THEN Found(<<"/dev/", parts[1].s>>)
         ELSE LinuxScan(Tail(rows))

\* _linux_find_floppy_sized_block_device on the outcome of lsblk: out.ok is
\* false when check_output raised, out.lines are the lines of its output,
\* each a sequence of fields (an empty one is a blank line)
linux_find_floppy_sized_block_device(out) ==
    IF ~out.ok THEN NotFound
    ELSE LET lines == SelectSeq(out.lines, LAMBDA ln : ln # << >>) IN
         IF Len(lines) < 2 THEN NotFound ELSE LinuxScan(Tail(lines))

\* the loop over data.get("AllDisksAndPartitions", []) of _mac_find_floppy_sized_disk
RECURSIVE MacScan(_)
MacScan(disks) ==
    IF disks = << >> THEN NotFound
    ELSE LET disk == Head(disks) IN
         IF disk.kind # "dict" THEN Raised("AttributeError")
         ELSE IF disk.id = << >> \/ ~disk.size.num THEN MacScan(Tail(disks))
         ELSE IF disk.size.v \in FloppySizes THEN Found(<<"/dev/r">> \o disk.id)
         ELSE MacScan(Tail(disks))

\* _mac_find_floppy_sized_disk on the outcome of diskutil list -plist: out.ok
\* is false when check_output or plistlib.loads raised; out.root is the kind
\* of the parsed top-level object, out.disks the kind of its
\* AllDisksAndPartitions value ("missing", "list", or "other" for a value
\* that cannot be iterated), out.entries the entries of the list
mac_find_floppy_sized_disk(out) ==
    IF ~out.ok THEN NotFound
    ELSE IF out.root # "dict" THEN Raised("AttributeError")
    ELSE IF out.disks = "missing" THEN NotFound
    ELSE IF out.disks # "list" THEN Raised("TypeError")
    ELSE MacScan(out.entries)

\* result of resolve_device_path: the path or the exception, with the
\* os.path.exists probes made and whether a discovery function was called
Resolved(p, probed, disc) ==
    [path |-> p, exc |-> "none", msg |-> "", probed |-> probed, discovery |-> disc]
ResolveFails(e, m, probed, disc) ==
    [path |-> << >>, exc |-> e, msg |-> m, probed |-> probed, discovery |-> disc]

\* for dev in candidates: if os.path.exists(dev): return dev
RECURSIVE Probe(_, _, _)
Probe(cands, existing, probed) ==
    IF cands = << >> THEN [hit |-> << >>, probed |-> probed]
    ELSE IF Head(cands) \in existing
           THEN [hit |-> Head(cands), probed |-> Append(probed, Head(cands))]
    ELSE Probe(Tail(cands), existing, Append(probed, Head(cands)))

\* dev = discovery(); if dev: return dev; raise FileNotFoundError(msg)
AfterDiscovery(d, msg, probed) ==
    IF d.raised # "none" THEN ResolveFails(d.raised, "", probed, TRUE)
    ELSE IF d.found THEN Resolved(d.path, probed, TRUE)
    ELSE ResolveFails("FileNotFoundError", msg, probed, TRUE)

\* the body of resolve_device_path(drive_letter) once plat = platform_name()
\* is pn, where the paths in `existing` exist and lsblk / diskutil answer as
\* given
ResolveOn(pn, drive_letter, existing, lsblk, plist) ==
    LET drive == NormDrive(drive_letter) IN
    IF pn = "windows" THEN Resolved(drive_device_path_windows(drive), << >>, FALSE)
    ELSE IF pn = "linux" THEN
        LET pr == Probe(Candidates(drive), existing, << >>) IN
        IF pr.hit # << >> THEN Resolved(pr.hit, pr.probed, FALSE)
        ELSE AfterDiscovery(linux_find_floppy_sized_block_device(lsblk),
                            "No suitable floppy device found on Linux.", pr.probed)
    ELSE IF pn = "macos" THEN
        AfterDiscovery(mac_find_floppy_sized_disk(plist),
                       "No suitable floppy device found on macOS.", << >>)
    ELSE ResolveFails("FileNotFoundError", "Unsupported platform.", << >>, FALSE)

\* resolve_device_path(drive_letter) on a machine whose sys.platform is sp
ResolveDevicePath(sp, drive_letter, existing, lsblk, plist) ==
    ResolveOn(PlatformName(sp), drive_letter, existing, lsblk, plist)

\* the path _unix_unmount_best_effort hands to umount / diskutil unmountDisk:
\* on macOS dev.replace("/dev/rdisk", "/dev/disk")
UnmountArg_Raw(pn, dev) == dev

UnmountArg(pn, dev) ==
    IF pn = "macos" /\ StartsWith(dev, <<"/dev/r", "disk">>)
      THEN <<"/dev/", "disk">> \o SubSeq(dev, 3, Len(dev))
      ELSE dev

\* ------------------------------------------------ what the system answers
\* header line of lsblk -b -o NAME,SIZE,RM,TYPE,RO
LsblkHeader == <<Txt("NAME"), Txt("SIZE"), Txt("RM"), Txt("TYPE"), Txt("RO")>>
\* a line of lsblk output
Row(name, sz, rm, typ, ro) == <<Txt(name), sz, rm, Txt(typ), ro>>
\* lsblk could not be run
LsblkFails == [ok |-> FALSE, lines |-> << >>]
Lsblk(lines) == [ok |-> TRUE, lines |-> lines]
\* an entry of AllDisksAndPartitions
DiskWith(id, sz, parts) == [kind |-> "dict", id |-> id, size |-> sz, parts |-> parts]
\* one without a Partitions list
Disk(id, sz) == DiskWith(id, sz, << >>)
NotADict == [kind |-> "other", id |-> << >>, size |-> Txt(""), parts |-> << >>]
\* diskutil could not be run or its output is no plist
PlistFails == [ok |-> FALSE, root |-> "dict", disks |-> "missing", entries |-> << >>]
Plist(root, disks, entries) == [ok |-> TRUE, root |-> root, disks |-> disks, entries |-> entries]

\* the drive letter operations are started with (the GUI's default)
Drives == {<<"A">>}

\* machines an operation may find itself on: no floppy at all; conventional
\* device nodes present and a floppy-sized disk listed; only a USB floppy; a
\* listing of an unexpected structure
Machines ==
    { [existing |-> {}, lsblk |-> LsblkFails, plist |-> PlistFails],
      [existing |-> {<<"/dev/", "fd0">>, <<"/dev/", "fd1">>},
       lsblk |-> LsblkFails,
       plist |-> Plist("dict", "list", <<Disk(<<"disk", "2">>, Num(FLOPPY_1440K))>>)],
      [existing |-> {},
       lsblk |-> Lsblk(<<LsblkHeader, Row("sdb", Num(FLOPPY_1440K), Num(1), "disk", Num(0))>>),
       plist |-> Plist("other", "missing", << >>)] }

\* device = self.resolve_device_path(drive_letter): the local receives what
\* the call returns, whatever an earlier resolution produced
ResolveTarget_Cached(fresh, cached) == IF cached # << >> THEN cached ELSE fresh

ResolveTarget(fresh, cached) == fresh

\* the core used without the GUI
NoGui == [on |-> FALSE]

\* no pure function is being evaluated
NoCall == [fn |-> "none"]
Pending == [done |-> FALSE]
Returned(v) == [done |-> TRUE, val |-> v]

\* -------------------------------------------------------------------- Init
\* no operation has run on the core object yet
CoreIdle ==
    /\ op = "none"
    /\ src = << >>
    /\ size = 0
    /\ total = 0
    /\ pc = "idle"
    /\ fpos = 0
    /\ buf = << >>
    /\ written_total = 0
    /\ device = << >>
    /\ stop_requested = FALSE
    /\ stop_at_call = FALSE
    /\ exc = NoExc
    /\ trace = << >>
    /\ nops = 0
    /\ target = << >>

Init ==
    /\ plat \in Platforms
    /\ chunk_size \in 1..MaxChunk
    /\ CoreIdle
    /\ call = NoCall
    /\ ret = Pending
    /\ recording = TRUE
    /\ gui = NoGui

\* ------------------------------------------------------------- entry points
Enter(o, image, sz) ==
    /\ pc \in {"idle", "done"}
    /\ nops < MaxOps
    /\ nops' = nops + 1
    /\ op' = o
    /\ src' = image
    /\ size' = sz
    /\ pc' = "resolve"
    /\ exc' = NoExc
    /\ trace' = << >>
    /\ device' = << >>
    /\ buf' = << >>
    /\ fpos' = 0
    /\ stop_at_call' = stop_requested
    /\ total' = 0
    /\ UNCHANGED <<plat, chunk_size, written_total, stop_requested, target, call, ret,
                   recording, gui>>

write_image == \E L \in 0..MaxLen : Enter("write", Image(L), 0)

format_zero_fill == \E S \in 0..MaxLen : Enter("format", << >>, S)

\* where a resolver exception leaves write_image / format_zero_fill: the call
\* is their first statement and outside any try block
ResolveFailPc_Continue == "log_target"

ResolveFailPc == "done"

\* device = self.resolve_device_path(drive_letter)
resolve_device_path ==
    /\ pc = "resolve"
    /\ \E drive \in Drives, m \in Machines :
        LET r == ResolveOn(plat, drive, m.existing, m.lsblk, m.plist) IN
        /\ Log(Ev("resolve", r.exc = "none", r.path, 0))
        /\ IF r.exc = "none"
             THEN /\ pc' = (IF op = "write" THEN "stat" ELSE "log_target")
                  /\ exc' = exc
                  /\ target' = ResolveTarget(r.path, target)
             ELSE /\ pc' = ResolveFailPc
                  /\ exc' = Exc(IF r.exc = "FileNotFoundError" THEN "DeviceNotFound" ELSE r.exc, 0)
                  /\ target' = target
    /\ UNCHANGED <<plat, chunk_size, op, src, size, total, fpos, buf, written_total,
                   device, stop_requested, stop_at_call, nops, call, ret,
                   recording, gui>>

\* total = image_path.stat().st_size
stat_image ==
    /\ pc = "stat"
    /\ \E ok \in BOOLEAN :
        /\ Log(Ev("stat", ok, 0, 0))
        /\ IF ok
             THEN pc' = "log_target" /\ total' = Len(src) /\ exc' = exc
             ELSE pc' = "done" /\ total' = total /\ exc' = Exc("StatError", 0)
    /\ UNCHANGED <<plat, chunk_size, op, src, size, fpos, buf, written_total,
                   device, stop_requested, stop_at_call, nops, target, call, ret,
                   recording, gui>>

\* log_cb(f"Target device: {device}", "info"), outside any try block
log_target ==
    /\ pc = "log_target"
    /\ \E ok \in BOOLEAN :
        /\ Log(Ev("log_cb", ok, 0, 0))
        /\ IF ok
             THEN pc' = (IF IsWindows THEN "open" ELSE "umount") /\ exc' = exc
             ELSE pc' = "done" /\ exc' = Exc("CallbackError", 0)
    /\ UNCHANGED <<plat, chunk_size, op, src, size, total, fpos, buf, written_total,
                   device, stop_requested, stop_at_call, nops, target, call, ret,
                   recording, gui>>

\* ------------------------------------------------------------- acquisition
\* variables no step of the core changes once the invocation is entered
Frame == <<plat, chunk_size, op, src, size, stop_requested, stop_at_call, nops,
           target, call, ret,
                   recording, gui>>

\* _unix_unmount_best_effort(device): umount / diskutil unmountDisk, any
\* failure swallowed
unix_unmount_best_effort ==
    /\ pc = "umount"
    /\ \E ok \in BOOLEAN : Log(Ev("umount", ok, UnmountArg(plat, target), 0))
    /\ pc' = "open"
    /\ UNCHANGED <<Frame, total, fpos, buf, written_total, device, exc>>

\* handle = self._open_device_handle(device) / fd = os.open(device, flags),
\* both before the try block
open_device ==
    /\ pc = "open"
    /\ \E ok \in BOOLEAN :
        /\ Log(Ev("open", ok, target, 0))
        /\ IF ok
             THEN pc' = (IF IsWindows THEN "lock" ELSE "begin") /\ exc' = exc
             ELSE pc' = "done" /\ exc' = Exc("OpenError", 0)
    /\ UNCHANGED <<Frame, total, fpos, buf, written_total, device>>

\* the statement after the lock: the dismount ioctl
AfterLockPc_NoDismount == "begin"

AfterLockPc == "dismount"

\* self._device_ioctl(handle, self._FSCTL_LOCK_VOLUME)
lock_volume ==
    /\ pc = "lock"
    /\ \E ok \in BOOLEAN :
        /\ Log(Ev("lock", ok, 0, 0))
        /\ IF IoctlRaises(ok)
             THEN Raise("LockError")
             ELSE pc' = AfterLockPc /\ exc' = exc
    /\ UNCHANGED <<Frame, total, fpos, buf, written_total, device>>

\* self._device_ioctl(handle, self._FSCTL_DISMOUNT_VOLUME)
dismount_volume ==
    /\ pc = "dismount"
    /\ \E ok \in BOOLEAN :
        /\ Log(Ev("dismount", ok, 0, 0))
        /\ IF IoctlRaises(ok)
             THEN Raise("DismountError")
             ELSE pc' = "begin" /\ exc' = exc
    /\ UNCHANGED <<Frame, total, fpos, buf, written_total, device>>

\* ----------------------------------------------------------- transfer loop
\* written_total = 0, and for write_image `with image_path.open("rb") as f`
begin_transfer ==
    /\ pc = "begin"
    /\ written_total' = InitWritten
    /\ IF op = "write"
         THEN \E ok \in BOOLEAN :
                /\ Log(Ev("open_image", ok, 0, 0))
                /\ IF ok
                     THEN pc' = LoopTopPc(op) /\ exc' = exc
                     ELSE Raise("ImageOpenError")
         ELSE pc' = LoopTopPc(op) /\ exc' = exc /\ trace' = trace
    /\ fpos' = 0
    /\ UNCHANGED <<Frame, total, buf, device>>

\* while written_total < size:
loop_test ==
    /\ pc = "test"
    /\ pc' = (IF written_total < size THEN "poll" ELSE SyncPc)
    /\ UNCHANGED <<Frame, total, fpos, buf, written_total, device, exc, trace>>

\* if stop_cb(): raise RuntimeError("Interrupted by user.")
poll_stop ==
    /\ pc = "poll"
    /\ Log(Ev("stop_cb", TRUE, (IF StopCb THEN 1 ELSE 0), 0))
    /\ IF StopCb
         THEN Raise("Interrupted")
         ELSE pc' = (IF op = "write" THEN "read" ELSE "zeros") /\ exc' = exc
    /\ UNCHANGED <<Frame, total, fpos, buf, written_total, device>>

\* buf = f.read(self.chunk_size); if not buf: break
read_chunk ==
    /\ pc = "read"
    /\ buf' = ReadChunk(src, fpos, chunk_size)
    /\ fpos' = fpos + Len(buf')
    /\ Log(Ev("read", TRUE, chunk_size, Len(buf')))
    /\ pc' = (IF buf' = << >> THEN SyncPc ELSE "write")
    /\ UNCHANGED <<Frame, total, written_total, device, exc>>

\* remaining = size - written_total; n = min(chunk_size, remaining); buf = b"\x00" * n
zero_chunk ==
    /\ pc = "zeros"
    /\ buf' = Zeros(FormatChunkLen(chunk_size, size, written_total))
    /\ pc' = "write"
    /\ UNCHANGED <<Frame, total, fpos, written_total, device, exc, trace>>

\* the statement after a write that returned: progress_cb(written_total, total)
AfterWritePc_NoProgress(o) == LoopTopPc(o)

AfterWritePc(o) == "progress"

\* w = self._writefile(handle, buf) / n = os.write(fd, buf); written_total += w
write_chunk ==
    /\ pc = "write"
    /\ \/ \E w \in AcceptCounts(Len(buf)) :
            /\ Log(Ev("write", TRUE, Len(buf), w))
            /\ device' = device \o SubSeq(buf, 1, w)
            /\ written_total' = Accumulate(written_total, w, Len(buf))
            /\ pc' = AfterWritePc(op)
            /\ exc' = exc
       \/ /\ Log(Ev("write", FALSE, Len(buf), 0))
          /\ Raise("WriteError")
          /\ UNCHANGED <<device, written_total>>
    /\ UNCHANGED <<Frame, total, fpos, buf>>

\* progress_cb(written_total, total)
progress_cb ==
    /\ pc = "progress"
    /\ \E ok \in BOOLEAN :
        /\ Log(Ev("progress_cb", ok, written_total, Total))
        /\ IF ok
             THEN pc' = LoopTopPc(op) /\ exc' = exc
             ELSE Raise("CallbackError")
    /\ UNCHANGED <<Frame, total, fpos, buf, written_total, device>>

\* ------------------------------------------------------- flush / sync / log
\* self._flush(handle)
flush ==
    /\ pc = "flush"
    /\ \E code \in FlushCodes :
        /\ Log(Ev("flush", code = 0, code, 0))
        /\ IF FlushRaises(code)
             THEN exc' = Exc("FlushError", FlushErrno(code)) /\ pc' = FinallyPc
             ELSE pc' = "log_done" /\ exc' = exc
    /\ UNCHANGED <<Frame, total, fpos, buf, written_total, device>>

\* os.fsync(fd)
fsync ==
    /\ pc = "fsync"
    /\ \E ok \in BOOLEAN :
        /\ Log(Ev("fsync", ok, 0, 0))
        /\ IF ok
             THEN pc' = "log_done" /\ exc' = exc
             ELSE Raise("SyncError")
    /\ UNCHANGED <<Frame, total, fpos, buf, written_total, device>>

\* log_cb("WinAPI flush complete ...") / log_cb("fsync complete"), inside the try
log_done ==
    /\ pc = "log_done"
    /\ \E ok \in BOOLEAN :
        /\ Log(Ev("log_cb", ok, 0, 0))
        /\ IF ok
             THEN pc' = FinallyPc /\ exc' = exc
             ELSE Raise("CallbackError")
    /\ UNCHANGED <<Frame, total, fpos, buf, written_total, device>>

\* ----------------------------------------------------------------- teardown
\* finally: try: self._device_ioctl(handle, FSCTL_UNLOCK_VOLUME) except Exception: pass
unlock_volume ==
    /\ pc = "unlock"
    /\ \E ok \in BOOLEAN : Log(Ev("unlock", ok, 0, 0))
    /\ pc' = "close"
    /\ UNCHANGED <<Frame, total, fpos, buf, written_total, device, exc>>

\* whether a failed close raises: _close_handle swallows it, the bare
\* os.close(fd) of the Unix finally clause does not
CloseRaises(ok) == ~ok /\ ~IsWindows

\* self._close_handle(handle) / os.close(fd); an exception raised in a finally
\* clause replaces the one in flight
close_device ==
    /\ pc = "close"
    /\ \E ok \in BOOLEAN :
        /\ Log(Ev("close", ok, 0, 0))
        /\ exc' = (IF CloseRaises(ok) THEN Exc("CloseError", 0) ELSE exc)
    /\ pc' = "done"
    /\ UNCHANGED <<Frame, total, fpos, buf, written_total, device>>

\* ------------------------------------------------------ the caller's flag
\* FloppyForgeApp.request_stop: self._stop_requested = True, from another thread
request_stop ==
    /\ ~stop_requested
    /\ stop_requested' = TRUE
    /\ trace' = (IF pc \in {"idle", "done"} \/ ~recording THEN trace
                 ELSE Append(trace, Ev("request_stop", TRUE, 0, 0)))
    /\ UNCHANGED <<plat, chunk_size, op, src, size, total, pc, fpos, buf,
                   written_total, device, stop_at_call, exc, nops, target, call, ret,
                   recording, gui>>

\* start_write / start_format: self._stop_requested = False, only between operations
clear_stop ==
    /\ stop_requested
    /\ pc \in {"idle", "done"}
    /\ stop_requested' = FALSE
    /\ UNCHANGED <<plat, chunk_size, op, src, size, total, pc, fpos, buf,
                   written_total, device, stop_at_call, exc, trace, nops, target, call, ret,
                   recording, gui>>

\* _check_device_access(drive), the GUI's check before it starts a worker: a
\* resolution of its own whose result is only logged
check_device_access ==
    /\ pc \in {"idle", "done"}
    /\ \E drive \in Drives, m \in Machines :
        LET r == ResolveOn(plat, drive, m.existing, m.lsblk, m.plist) IN
        /\ r.exc = "none"
        /\ target' = r.path
    /\ UNCHANGED <<plat, chunk_size, op, src, size, total, pc, fpos, buf,
                   written_total, device, stop_requested, stop_at_call, exc, trace,
                   nops, call, ret,
                   recording, gui>>

\* -------------------------------------------------------------------- Next
Next ==
    \/ write_image
    \/ format_zero_fill
    \/ resolve_device_path
    \/ stat_image
    \/ log_target
    \/ unix_unmount_best_effort
    \/ open_device
    \/ lock_volume
    \/ dismount_volume
    \/ begin_transfer
    \/ loop_test
    \/ poll_stop
    \/ read_chunk
    \/ zero_chunk
    \/ write_chunk
    \/ progress_cb
    \/ flush
    \/ fsync
    \/ log_done
    \/ unlock_volume
    \/ close_device
    \/ request_stop
    \/ clear_stop
    \/ check_device_access

Spec == Init /\ [][Next]_vars

\* ------------------------------------------------- reading the call trace
Idx(e) == {i \in 1..Len(trace) : trace[i].ev = e}

Calls(e) == SelectSeq(trace, LAMBDA x : x.ev = e)

\* the calls the core itself issued (the caller's request_stop left out)
CoreTrace == SelectSeq(trace, LAMBDA x : x.ev # "request_stop")

ProgressCalls == Calls("progress_cb")
WriteCalls == Calls("write")
Polls == Calls("stop_cb")

\* the device handle / descriptor was opened in this invocation
Opened == \E i \in Idx("open") : trace[i].ok

\* calls made on the device handle / descriptor
HandleCalls == {"lock", "dismount", "write", "flush", "fsync", "unlock", "close"}

\* bytes the first n writes of W reported as accepted
RECURSIVE Accepted(_, _)
Accepted(W, n) == IF n = 0 THEN 0 ELSE Accepted(W, n - 1) + W[n].b

\* every write so far was accepted in full
AllFull == \A i \in 1..Len(WriteCalls) : WriteCalls[i].ok /\ WriteCalls[i].b = WriteCalls[i].a

\* the transfer loop of this invocation was entered
LoopEntered ==
    /\ Opened
    /\ IsWindows => /\ \E i \in Idx("lock") : trace[i].ok
                    /\ \E i \in Idx("dismount") : trace[i].ok
    /\ op = "write" => \E i \in Idx("open_image") : trace[i].ok

\* ------------------------------------------------------------------ claims

\* C1: a write_image run of a source of L >= 1 bytes that is not cancelled and
\* meets no error calls progress_cb with total = L every time, with written
\* non-decreasing and 0 < written <= L, and the last call has written = L.
C1_ProgressReachesLength ==
    (op = "write" /\ Result = "ok" /\ Len(src) >= 1) =>
        LET P == ProgressCalls IN
        /\ Len(P) >= 1
        /\ \A i \in 1..Len(P) : P[i].b = Len(src) /\ 0 < P[i].a /\ P[i].a <= Len(src)
        /\ \A i \in 1..(Len(P) - 1) : P[i].a <= P[i + 1].a
        /\ P[Len(P)].a = Len(src)

\* C2: whenever write_image returns success, the bytes the device accepted are,
\* in order, exactly the bytes of the source image.
C2_DeviceHoldsImage ==
    (op = "write" /\ Result = "ok") => device = src

\* C3: format_zero_fill requests min(C, S - written) bytes in every write,
\* writes only 0x00, never lets written exceed S, and a run without
\* cancellation or error ends with exactly S bytes on the device and a last
\* progress_cb call with written = S; when every write is accepted in full
\* the last chunk has S mod C bytes, or C bytes when C divides S.
C3_FormatWritesExactlySize ==
    op = "format" =>
        LET W == WriteCalls
            P == ProgressCalls
        IN
        /\ \A i \in 1..Len(W) : W[i].a = Min(chunk_size, size - Accepted(W, i - 1))
        /\ \A i \in 1..Len(device) : device[i] = 0
        /\ Len(device) <= size
        /\ \A i \in 1..Len(P) : P[i].a <= size
        /\ Result = "ok" =>
            /\ device = Zeros(size)
            /\ size > 0 => Len(P) >= 1 /\ P[Len(P)].a = size
            /\ (size > 0 /\ AllFull) =>
                 W[Len(W)].a = (IF size % chunk_size = 0 THEN chunk_size
                                ELSE size % chunk_size)

\* C3 witness: a wipe whose size is not a multiple of the chunk size finished
\* after a write that accepted fewer bytes than requested.
C3_Witness ==
    /\ op = "format" /\ Result = "ok"
    /\ size > chunk_size /\ size % chunk_size # 0
    /\ \E i \in 1..Len(WriteCalls) : WriteCalls[i].b < WriteCalls[i].a

\* C4: if the stop flag is already true when the operation starts, zero bytes
\* are written, progress_cb is never called and the operation fails with the
\* user-interrupted error, for every size including 0.
C4_StopBeforeFirstChunk ==
    (pc = "done" /\ stop_at_call /\ LoopEntered) =>
        /\ device = << >>
        /\ ProgressCalls = << >>
        /\ Result = "Interrupted"

\* C5: if stop_cb returns false on its first K polls and true on the next one
\* while chunks remain, exactly K chunk writes were issued, the device holds
\* the bytes of those K chunks and nothing more, no flush or sync was made,
\* teardown has run (unlock then close, or close), and the operation fails
\* with the user-interrupted error.
C5_CancelAfterKChunks ==
    (pc = "done" /\ Polls # << >> /\ Polls[Len(Polls)].a = 1 /\ Len(device) < Total) =>
        LET K == Len(Polls) - 1 IN
        /\ Len(WriteCalls) = K
        /\ \A i \in 1..K : Polls[i].a = 0
        /\ Len(device) = Accepted(WriteCalls, K)
        /\ AllFull => device = (IF op = "write"
                                  THEN SubSeq(src, 1, K * chunk_size)
                                  ELSE Zeros(K * chunk_size))
        /\ Idx("flush") = {} /\ Idx("fsync") = {}
        /\ Cardinality(Idx("close")) = 1
        /\ IsWindows => \E u \in Idx("unlock") : \A c \in Idx("close") : u < c
        /\ Result = "Interrupted"

\* C6: on Windows a successful lock followed by a successful dismount precedes
\* every WriteFile, on Unix the unmount attempt and the open precede every
\* write; a handle that was opened is closed exactly once by the time the
\* operation returns or raises, whatever the outcome, never closed twice, and
\* no call is made on the handle after the close.
C6_AcquireFirstCloseOnce ==
    /\ \A w \in Idx("write") :
         IF IsWindows
           THEN \E j \in Idx("lock"), k \in Idx("dismount") :
                    j < k /\ k < w /\ trace[j].ok /\ trace[k].ok
           ELSE \E j \in Idx("umount"), k \in Idx("open") :
                    j < k /\ k < w /\ trace[k].ok
    /\ Cardinality(Idx("close")) <= 1
    /\ Cardinality(Idx("open")) <= 1
    /\ \A c \in Idx("close") :
         /\ \E o \in Idx("open") : o < c /\ trace[o].ok
         /\ \A i \in (c + 1)..Len(trace) : trace[i].ev \notin HandleCalls
    /\ \A i \in 1..Len(trace) :
         trace[i].ev \in HandleCalls => \E o \in Idx("open") : o < i /\ trace[o].ok
    /\ (pc = "done" /\ Opened) => Cardinality(Idx("close")) = 1

\* C6 witness: a callback raised after a chunk had been written, and the
\* operation has ended with the handle closed.
C6_Witness ==
    /\ pc = "done" /\ Result = "CallbackError"
    /\ Idx("write") # {}
    /\ Cardinality(Idx("close")) = 1

\* C7: when the open, the lock or the dismount fails, no byte is written,
\* stop_cb and progress_cb are never called, nothing but teardown follows the
\* failed call (no dismount after a failed lock), the operation fails with
\* that error, a handle that had been opened is closed exactly once, and a
\* failed open is followed by no unlock and no close.
C7_AcquisitionFailure ==
    \A i \in 1..Len(trace) :
        (trace[i].ev \in {"open", "lock", "dismount"} /\ ~trace[i].ok) =>
            /\ device = << >>
            /\ Idx("write") = {} /\ Idx("stop_cb") = {} /\ Idx("progress_cb") = {}
            /\ trace[i].ev = "lock" => Idx("dismount") = {}
            /\ \A j \in (i + 1)..Len(trace) :
                 trace[j].ev \in (IF trace[i].ev = "open" THEN {"request_stop"}
                                  ELSE {"unlock", "close", "request_stop"})
            /\ pc \in (IF trace[i].ev = "open" THEN {"done"} ELSE {"unlock", "close", "done"})
            /\ pc = "done" =>
                 /\ Result = (CASE trace[i].ev = "open" -> "OpenError"
                                [] trace[i].ev = "lock" -> "LockError"
                                [] OTHER -> "DismountError")
                 /\ Cardinality(Idx("close")) = (IF trace[i].ev = "open" THEN 0 ELSE 1)
                 /\ trace[i].ev = "open" => Idx("unlock") = {}

\* C7 witness: the lock was refused and the operation has ended with the
\* lock error, the handle closed.
C7_Witness ==
    /\ pc = "done" /\ Result = "LockError"
    /\ \E i \in Idx("lock") : ~trace[i].ok
    /\ Idx("close") # {}

\* C8: every progress_cb(written, total) call has 0 <= written <= total,
\* written never below the previous call's, total equal to the source length
\* (write_image) or the caller's size (format_zero_fill) in every call, and
\* written counts only the bytes of the current invocation: it is the sum of
\* what the writes of this invocation reported.
C8_ProgressBounded ==
    LET P == ProgressCalls
        W == SelectSeq(trace, LAMBDA x : x.ev = "write" /\ x.ok)
    IN
    /\ \A i \in 1..Len(P) :
         /\ 0 <= P[i].a /\ P[i].a <= P[i].b
         /\ P[i].b = (IF op = "format" THEN size ELSE Len(src))
         /\ P[i].a = Accepted(W, i)
    /\ \A i \in 1..(Len(P) - 1) : P[i].a <= P[i + 1].a

\* C8 witness: the second invocation on the same core object has made two
\* progress calls, the second with a larger count.
C8_Witness ==
    /\ nops = 2
    /\ Len(ProgressCalls) >= 2
    /\ ProgressCalls[1].a < ProgressCalls[2].a

\* C9 (as claimed): in a run that is not cancelled the number of stop_cb polls
\* equals the number of chunks written, and every poll that returned false is
\* followed by a chunk write.
C9_OnePollPerChunk ==
    (Result = "ok" /\ \A i \in 1..Len(Polls) : Polls[i].a = 0) =>
        /\ Len(Polls) = Len(WriteCalls)
        /\ \A i \in Idx("stop_cb") :
             \E w \in Idx("write") :
                 w > i /\ \A j \in (i + 1)..(w - 1) : trace[j].ev # "stop_cb"

\* C9 (amended): stop_cb is polled once at the top of every loop iteration,
\* before the source read or the device write of that iteration.  A source
\* read directly follows a poll that returned false (write_image), a chunk
\* write directly follows the poll (format_zero_fill) or the read
\* (write_image).  A successful format_zero_fill polls as many times as it
\* writes chunks; a successful write_image polls once more, before the read
\* that finds the end of the source.
C9_PollPerIteration ==
    LET T == CoreTrace IN
    /\ \A i \in 1..Len(T) :
         /\ (T[i].ev = "stop_cb" /\ T[i].a = 0 /\ i < Len(T)) =>
                T[i + 1].ev = (IF op = "write" THEN "read" ELSE "write")
         /\ T[i].ev = "read" => i > 1 /\ T[i - 1].ev = "stop_cb" /\ T[i - 1].a = 0
         /\ T[i].ev = "write" =>
                /\ i > 1
                /\ T[i - 1].ev = (IF op = "write" THEN "read" ELSE "stop_cb")
                /\ T[i - 1].ev = "stop_cb" => T[i - 1].a = 0
    /\ Result = "ok" =>
         Len(Polls) = Len(WriteCalls) + (IF op = "write" THEN 1 ELSE 0)

\* C9 witness: a write_image run of two chunks returned success after three polls.
C9_Witness ==
    /\ op = "write" /\ Result = "ok"
    /\ Len(WriteCalls) = 2
    /\ Len(Polls) = 3

\* C10: once the caller's flag is true, at most one further chunk write is
\* issued (none when it was true on entry); every poll returns the flag as
\* the caller left it, and the core never changes the flag: while an
\* operation runs the flag is true exactly when the caller had set it.
C10_AtMostOneWriteAfterStop ==
    /\ stop_at_call => Idx("write") = {}
    /\ \A s \in Idx("request_stop") :
         Cardinality({w \in Idx("write") : w > s}) <= 1
    /\ \A i \in Idx("stop_cb") :
         (trace[i].a = 1) <=> (stop_at_call \/ \E s \in Idx("request_stop") : s < i)
    /\ pc \notin {"idle", "done"} =>
         (stop_requested <=> (stop_at_call \/ Idx("request_stop") # {}))

\* C10 witness: the flag was set between a poll and its chunk write; that one
\* write was still issued and the next poll ended the transfer.
C10_Witness ==
    /\ pc = "done" /\ Result = "Interrupted"
    /\ \E s \in Idx("request_stop") :
         /\ s > 1 /\ trace[s - 1].ev = "stop_cb"
         /\ Cardinality({w \in Idx("write") : w > s}) = 1

\* C11: on Windows, when FlushFileBuffers fails with code 1 the operation
\* goes on as after a successful flush and reports success; with any other
\* code it fails with an error carrying that code and nothing but teardown
\* follows; the flush comes after the last chunk write, and in both cases
\* unlock and then close are performed.
C11_FlushFilter ==
    \A f \in Idx("flush") :
        LET c == trace[f].a IN
        /\ IsWindows
        /\ \A w \in Idx("write") : w < f
        /\ (c = ERROR_INVALID_FUNCTION /\ \A l \in Idx("log_cb") : trace[l].ok) =>
              /\ exc = NoExc
              /\ pc = "done" => Result = "ok"
        /\ (c # 0 /\ c # ERROR_INVALID_FUNCTION) =>
              /\ exc = Exc("FlushError", c)
              /\ \A j \in (f + 1)..Len(trace) :
                    trace[j].ev \in {"unlock", "close", "request_stop"}
        /\ pc = "done" =>
              \E u \in Idx("unlock"), cl \in Idx("close") : f < u /\ u < cl

\* C11 witness: a flush that failed with code 1 and an operation that
\* nevertheless returned success.
C11_Witness ==
    /\ Result = "ok"
    /\ Idx("write") # {}
    /\ \E f \in Idx("flush") : ~trace[f].ok /\ trace[f].a = ERROR_INVALID_FUNCTION

\* C12: a failing teardown step (Windows unlock or close, Unix close) never
\* changes the outcome of the operation: whatever was in flight when the
\* finally clause was entered (nothing, or the original error) is what the
\* caller gets, and on Windows the close follows the unlock even when the
\* unlock failed.
C12_TeardownKeepsOutcome ==
    [][ /\ pc \in {"unlock", "close"} => exc' = exc
        /\ (pc = "unlock" /\ pc' # pc) => pc' = "close" ]_vars

\* C13: on Unix an operation reports success only after one os.fsync, issued
\* after the last chunk write, returned without error; a failing fsync makes
\* the operation fail with the descriptor still closed; fsync is never issued
\* after a cancellation, a failed write or any other error of the transfer.
C13_SyncBeforeSuccess ==
    ~IsWindows =>
        /\ Idx("flush") = {}
        /\ Cardinality(Idx("fsync")) <= 1
        /\ Result = "ok" => \E s \in Idx("fsync") : trace[s].ok
        /\ \A s \in Idx("fsync") :
             /\ \A w \in Idx("write") : w < s
             /\ \A j \in 1..(s - 1) :
                  /\ trace[j].ev = "stop_cb" => trace[j].a = 0
                  /\ trace[j].ev \in {"open_image", "write", "progress_cb"} => trace[j].ok
             /\ ~trace[s].ok =>
                  /\ exc # NoExc
                  /\ \A j \in (s + 1)..Len(trace) : trace[j].ev \in {"close", "request_stop"}
                  /\ pc = "done" => Result # "ok" /\ Cardinality(Idx("close")) = 1

\* C13 witness: a Unix transfer of two chunks that returned success, its
\* fsync issued after the second write.
C13_Witness ==
    /\ ~IsWindows /\ Result = "ok"
    /\ Cardinality(Idx("write")) = 2
    /\ \E s \in Idx("fsync") : trace[s].ok /\ \A w \in Idx("write") : w < s

\* ---------------------------------------------------------------------- C17
\* C17: every invocation resolves its target once, before anything else it
\* does, and the device it unmounts and opens is the target that resolution
\* returned (on macOS the unmount names the buffered node of that disk);
\* nothing resolved earlier, by a previous invocation or by the GUI's
\* pre-check, is used in its place.
C17_TargetResolvedFresh ==
    /\ Cardinality(Idx("resolve")) <= 1
    /\ pc \notin {"idle", "resolve"} => Cardinality(Idx("resolve")) = 1
    /\ \A r \in Idx("resolve") :
        /\ \A i \in 1..(r - 1) : trace[i].ev = "request_stop"
        /\ trace[r].ok /\ pc # "done" => target = trace[r].a
        /\ ~trace[r].ok => \A i \in (r + 1)..Len(trace) : trace[i].ev = "request_stop"
        /\ \A i \in Idx("open") : trace[r].ok /\ trace[i].a = trace[r].a
        /\ \A i \in Idx("umount") :
              /\ trace[r].ok
              /\ \/ trace[i].a = trace[r].a
                 \/ /\ plat = "macos"
                    /\ trace[r].a = <<"/dev/r", "disk">> \o SubSeq(trace[i].a, 3, Len(trace[i].a))
                    /\ trace[i].a = <<"/dev/", "disk">> \o SubSeq(trace[r].a, 3, Len(trace[r].a))

\* a second invocation opened the USB floppy that discovery found
C17_Witness ==
    /\ nops = 2
    /\ \E r \in Idx("resolve"), o \in Idx("open") :
          r < o /\ trace[o].ok /\ trace[o].a = <<"/dev/", "sdb">> /\ trace[r].a = trace[o].a

\* ------------------------------------------ the resolver as a pure function
MaxLines == 2        \* lines of lsblk output after the first / plist entries

\* drive letters as a caller may spell them
DriveInputs == {<<"A">>, <<"B">>, <<"a">>, <<"b", " ">>}

\* the device nodes os.path.exists may find
DeviceNodes ==
    {<<"/dev/", "fd0">>, <<"/dev/", "floppy/0">>, <<"/dev/", "fd1">>, <<"/dev/", "floppy/1">>}

\* sequences over S of length at most n
SeqsUpTo(S, n) == UNION {[1..k -> S] : k \in 0..n}

\* lines lsblk may print: the header, a blank line, two removable writable
\* floppy-sized disks, a disk of another size, a fixed one, a read-only one, a
\* partition, a line with four fields, a line whose size is not a number
LsblkLines ==
    { LsblkHeader,
      << >>,
      Row("sdb", Num(FLOPPY_1440K), Num(1), "disk", Num(0)),
      Row("sdc", Num(AMIGA_ADF_880K), Num(1), "disk", Num(0)),
      Row("sdd", Num(FLOPPY_1440K + 1), Num(1), "disk", Num(0)),
      Row("sda", Num(FLOPPY_720K), Num(0), "disk", Num(0)),
      Row("sde", Num(FLOPPY_2880K), Num(1), "disk", Num(1)),
      Row("sdb1", Num(FLOPPY_1440K), Num(1), "part", Num(0)),
      <<Txt("sdf"), Num(FLOPPY_1440K), Num(1), Txt("disk")>>,
      Row("sdg", Txt("-"), Num(1), "disk", Num(0)) }

\* what lsblk may answer
LsblkOutcomes ==
    {LsblkFails} \cup {Lsblk(ls) : ls \in SeqsUpTo(LsblkLines, MaxLines + 1)}

\* entries AllDisksAndPartitions may hold: two floppy-sized disks, a disk of
\* another size, an entry without identifier, one whose size is a string, an
\* entry that is no dictionary, and a larger disk whose Partitions list holds
\* a floppy-sized partition
PlistEntries ==
    { Disk(<<"disk", "2">>, Num(FLOPPY_1440K)),
      Disk(<<"disk", "3">>, Num(FLOPPY_720K)),
      Disk(<<"disk", "0">>, Num(FLOPPY_2880K + 1)),
      Disk(<< >>, Num(FLOPPY_1440K)),
      Disk(<<"disk", "4">>, Txt("1474560")),
      NotADict,
      DiskWith(<<"disk", "5">>, Num(FLOPPY_2880K + 2),
               <<Disk(<<"disk", "5", "s1">>, Num(FLOPPY_1440K))>>) }

\* what diskutil list -plist may answer
PlistOutcomes ==
    {PlistFails, Plist("other", "missing", << >>), Plist("dict", "missing", << >>),
     Plist("dict", "other", << >>)}
        \cup {Plist("dict", "list", es) : es \in SeqsUpTo(PlistEntries, MaxLines)}

\* calls of resolve_device_path and of the two discovery functions
ResolverCalls ==
    {[fn |-> "resolve_device_path", sp |-> sp, drive |-> d, existing |-> ex,
      lsblk |-> m.lsblk, plist |-> m.plist] :
        sp \in SysPlatforms, d \in DriveInputs, ex \in SUBSET DeviceNodes, m \in Machines}
    \cup {[fn |-> "linux_find", sp |-> <<"linux">>, drive |-> <<"A">>, existing |-> {},
           lsblk |-> o, plist |-> PlistFails] : o \in LsblkOutcomes}
    \cup {[fn |-> "mac_find", sp |-> <<"darwin">>, drive |-> <<"A">>, existing |-> {},
           lsblk |-> LsblkFails, plist |-> o] : o \in PlistOutcomes}

InitResolver ==
    /\ call \in ResolverCalls
    /\ plat = PlatformName(call.sp)
    /\ chunk_size = 1
    /\ CoreIdle
    /\ ret = Pending
    /\ recording = TRUE
    /\ gui = NoGui

\* everything but `ret`
CallFrame == <<plat, chunk_size, op, src, size, total, pc, fpos, buf, written_total,
               device, stop_requested, stop_at_call, exc, trace, nops, target, call,
               recording, gui>>

ResolveCall ==
    /\ call.fn = "resolve_device_path" /\ ~ret.done
    /\ ret' = Returned(ResolveDevicePath(call.sp, call.drive, call.existing,
                                         call.lsblk, call.plist))
    /\ UNCHANGED CallFrame

LinuxFindCall ==
    /\ call.fn = "linux_find" /\ ~ret.done
    /\ ret' = Returned(linux_find_floppy_sized_block_device(call.lsblk))
    /\ UNCHANGED CallFrame

MacFindCall ==
    /\ call.fn = "mac_find" /\ ~ret.done
    /\ ret' = Returned(mac_find_floppy_sized_disk(call.plist))
    /\ UNCHANGED CallFrame

NextResolver == ResolveCall \/ LinuxFindCall \/ MacFindCall

SpecResolver == InitResolver /\ [][NextResolver]_vars

\* ---------------------------------------------------------------------- C14
\* C14: for drive A or B, on Windows the resolver returns the raw path built
\* from the letter without any query; on Linux it returns the first existing
\* conventional path of that drive without running discovery, otherwise what
\* discovery found, and fails with device-not-found exactly when neither
\* yields a path; on macOS it returns what discovery found or fails with
\* device-not-found.
C14_ResolvePerPlatform ==
    (call.fn = "resolve_device_path" /\ ret.done
        /\ call.sp \in {<<"win", "32">>, <<"linux">>, <<"darwin">>}) =>
    LET r == ret.val
        drive == NormDrive(call.drive)
        conv == IF drive = <<"A">> THEN << <<"/dev/", "fd0">>, <<"/dev/", "floppy/0">> >>
                ELSE << <<"/dev/", "fd1">>, <<"/dev/", "floppy/1">> >>
        here == {i \in 1..2 : conv[i] \in call.existing}
        notfound == r.exc = "FileNotFoundError" /\ r.path = << >>
    IN
    /\ drive \in {<<"A">>, <<"B">>}
    /\ call.sp = <<"win", "32">> =>
          /\ r.exc = "none" /\ r.path = <<"\\\\.\\", drive[1], ":">>
          /\ r.probed = << >> /\ ~r.discovery
    /\ call.sp = <<"linux">> =>
          LET d == linux_find_floppy_sized_block_device(call.lsblk) IN
          /\ here # {} => /\ r.exc = "none" /\ ~r.discovery
                          /\ r.path = conv[CHOOSE i \in here : \A j \in here : i <= j]
          /\ here = {} => /\ r.discovery
                          /\ d.found => r.exc = "none" /\ r.path = d.path
          /\ notfound <=> (here = {} /\ ~d.found)
          /\ r.exc \in {"none", "FileNotFoundError"}
    /\ call.sp = <<"darwin">> =>
          LET d == mac_find_floppy_sized_disk(call.plist) IN
          \/ r.exc = "none" /\ d.found /\ r.path = d.path
          \/ notfound /\ ~d.found

\* ---------------------------------------------------------------------- C15
\* C15: on a platform that is none of Windows, Linux, macOS the resolver fails
\* with an unsupported-platform error, told apart from device-not-found, and
\* neither probes a path nor runs discovery.
C15_UnsupportedPlatform ==
    (call.fn = "resolve_device_path" /\ ret.done
        /\ ~StartsWith(call.sp, <<"win">>) /\ call.sp \notin {<<"linux">>, <<"darwin">>}) =>
    /\ ret.val.exc # "none"
    /\ ret.val.msg = "Unsupported platform."
    /\ ret.val.probed = << >>
    /\ ~ret.val.discovery

\* ---------------------------------------------------------------------- C16
\* C16: neither discovery function raises, whatever the command answered:
\* each returns the first qualifying entry or nothing.
C16_DiscoveryNeverRaises ==
    (call.fn \in {"linux_find", "mac_find"} /\ ret.done) =>
    /\ ret.val.raised = "none"
    /\ call.fn = "linux_find" /\ ~call.lsblk.ok => ~ret.val.found
    /\ call.fn = "mac_find" /\ ~call.plist.ok => ~ret.val.found

\* -------------------------------------------------------------- human_bytes
\* A byte count is written in base 1024, least significant digit first and
\* without leading zeros: 1_474_560 is <<0, 416, 1>>, 0 is << >>.  While
\* human_bytes divides, `hi` holds the digits of the integer part of `size`
\* and `lo` those of its fraction (most significant last).  Counts below 2^53
\* and their quotients by 1024 are exact as floats.
MaxDigits == 5       \* base-1024 digits of the largest count

\* units = ["B", "KB", "MB", "GB", "TB"]
Units == <<"B", "KB", "MB", "GB", "TB">>

\* digits a count is made of
DigitVals == {0, 1, 128, 384, 416, 1023}

\* the counts human_bytes is applied to
Counts ==
    {d \in SeqsUpTo(DigitVals, MaxDigits) : d = << >> \/ d[Len(d)] # 0}

\* the integer a digit sequence stands for
RECURSIVE IntVal(_)
IntVal(d) == IF d = << >> THEN 0 ELSE Head(d) + 1024 * IntVal(Tail(d))

\* fraction * m as carry (integer part) and remaining fraction digits
RECURSIVE MulCarry(_, _, _)
MulCarry(ds, m, carry) ==
    IF ds = << >> THEN [rem |-> << >>, carry |-> carry]
    ELSE LET t == Head(ds) * m + carry
             rest == MulCarry(Tail(ds), m, t \div 1024)
         IN [rem |-> <<t % 1024>> \o rest.rem, carry |-> rest.carry]

\* a fraction against one half
CompareHalf(rem) ==
    IF rem = << >> THEN "below"
    ELSE LET top == rem[Len(rem)] IN
         IF top > 512 THEN "above"
         ELSE IF top < 512 THEN "below"
         ELSE IF \A i \in 1..(Len(rem) - 1) : rem[i] = 0 THEN "tie"
         ELSE "above"

\* hundredths of a fraction, cut off instead of rounded
Hundredths_Truncated(lo) == MulCarry(lo, 100, 0).carry

\* f"{size:.2f}": hundredths of the fraction rounded to nearest, ties to even
\* (100 when the fraction rounds up to the next integer)
Hundredths(lo) ==
    LET m == MulCarry(lo, 100, 0)
        c == CompareHalf(m.rem)
    IN IF c = "above" \/ (c = "tie" /\ m.carry % 2 = 1) THEN m.carry + 1 ELSE m.carry

\* the text human_bytes returns: the number before the point, the two digits
\* after it (none for bytes) and the unit
Text(whole, cents, decimals, unit) ==
    [whole |-> whole, cents |-> cents, decimals |-> decimals, unit |-> unit]

\* f"{size:.0f} {u}" if u == "B" else f"{size:.2f} {u}"
Format(hi, lo, u) ==
    IF u = "B" THEN Text(IntVal(hi), 0, 0, u)
    ELSE LET h == Hundredths(lo) IN
         IF h = 100 THEN Text(IntVal(hi) + 1, 0, 2, u) ELSE Text(IntVal(hi), h, 2, u)

\* for u in units: if size < 1024.0 or u == units[-1]: return ...; size /= 1024.0
RECURSIVE HumanLoop(_, _, _)
HumanLoop(hi, lo, i) ==
    IF Len(hi) <= 1 \/ i = Len(Units) THEN Format(hi, lo, Units[i])
    ELSE HumanLoop(Tail(hi), Append(lo, Head(hi)), i + 1)

human_bytes(n) == HumanLoop(n, << >>, 1)

InitHuman ==
    /\ call \in {[fn |-> "human_bytes", n |-> d] : d \in Counts}
    /\ plat \in {"linux"}
    /\ chunk_size = 1
    /\ CoreIdle
    /\ ret = Pending
    /\ recording = TRUE
    /\ gui = NoGui

HumanBytesCall ==
    /\ call.fn = "human_bytes" /\ ~ret.done
    /\ ret' = Returned(human_bytes(call.n))
    /\ UNCHANGED CallFrame

NextHuman == HumanBytesCall

SpecHuman == InitHuman /\ [][NextHuman]_vars

\* ---------------------------------------------------------------------- C18
\* the unit human_bytes must stop at: the first at which the value is below
\* 1024, TB when none is
UnitOf(n) == Units[Min(IF n = << >> THEN 1 ELSE Len(n), Len(Units))]

OSErrorClass(errno) ==
    IF errno \in {1, 13} THEN "PermissionError"
    ELSE IF errno = 2 THEN "FileNotFoundError"
    ELSE "OSError"

\* OSError(errno, msg) and its str()
OSErr(errno, msg) == [cls |-> OSErrorClass(errno), msg |-> <<"[Errno ", errno, "] ">> \o msg]

\* _winerr(prefix): OSError(err, f"{prefix} (WinError {err})") with
\* err = ctypes.get_last_error()
winerr(prefix, err) == OSErr(err, <<prefix, " (WinError ", err, ")">>)

\* the device calls of the two backends
WinSites == {"CreateFileW", "lock", "dismount", "WriteFile", "FlushFileBuffers"}
UnixSites == {"os.open", "os.write", "os.fsync", "os.close"}

\* GetLastError codes: 2 file not found, 3 path not found, 5 access denied,
\* 13 invalid data, 19 write protected, 21 device not ready, 32 sharing
\* violation, 87 invalid parameter
WinErrors == {2, 3, 5, 13, 19, 21, 32, 87}

\* errno values: 1 EPERM, 2 ENOENT, 5 EIO, 6 ENXIO, 13 EACCES, 16 EBUSY,
\* 30 EROFS, 123 ENOMEDIUM
Errnos == {1, 2, 5, 6, 13, 16, 30, 123}

\* failures an operation can meet: a device call failing with a code, the
\* resolver finding nothing, the caller asking to stop, the image missing
Failures ==
    {[plat |-> "windows", site |-> st, code |-> c] : st \in WinSites, c \in WinErrors}
    \cup {[plat |-> p, site |-> st, code |-> c] :
            p \in {"linux", "macos"}, st \in UnixSites, c \in Errnos}
    \cup {[plat |-> p, site |-> "resolve", code |-> 0] : p \in {"linux", "macos"}}
    \cup {[plat |-> p, site |-> st, code |-> 0] : p \in Platforms, st \in {"stop_cb"}}
    \cup {[plat |-> p, site |-> "stat", code |-> 2] : p \in Platforms}

\* the exception the core propagates for a failure
Propagated(f) ==
    CASE f.site = "CreateFileW" -> winerr("CreateFileW failed", f.code)
      [] f.site \in {"lock", "dismount"} -> winerr("DeviceIoControl failed", f.code)
      [] f.site = "WriteFile" -> winerr("WriteFile failed", f.code)
      [] f.site = "FlushFileBuffers" ->
            OSErr(f.code, <<"FlushFileBuffers failed", " (WinError ", f.code, ")">>)
      [] f.site \in UnixSites \cup {"stat"} -> OSErr(f.code, <<"strerror">>)
      [] f.site = "resolve" ->
            [cls |-> "FileNotFoundError",
             msg |-> IF f.plat = "linux" THEN <<"No suitable floppy device found on Linux.">>
                     ELSE <<"No suitable floppy device found on macOS.">>]
      [] f.site = "stop_cb" -> [cls |-> "RuntimeError", msg |-> <<"Interrupted by user.">>]

PermissionHint == <<"Permission denied. Elevated privileges may be required.">>
NotFoundHint == <<"Device not found / not ready. Insert disk and retry.">>

\* format_error(e)
format_error(e) ==
    IF e.cls = "PermissionError" THEN PermissionHint
    ELSE IF e.cls = "FileNotFoundError" THEN NotFoundHint
    ELSE e.msg

InitError ==
    /\ call \in {[fn |-> "format_error", failure |-> f] : f \in Failures}
    /\ plat = call.failure.plat
    /\ chunk_size = 1
    /\ CoreIdle
    /\ ret = Pending
    /\ recording = TRUE
    /\ gui = NoGui

FormatErrorCall ==
    /\ call.fn = "format_error" /\ ~ret.done
    /\ ret' = Returned(format_error(Propagated(call.failure)))
    /\ UNCHANGED CallFrame

NextError == FormatErrorCall

SpecError == InitError /\ [][NextError]_vars

\* ---------------------------------------------------------------------- C19
\* what a failure is about: a device call refused for lack of privilege
\* (Windows: access denied; Unix: EPERM, EACCES), a device that is not there
\* or not ready (Windows: file not found, device not ready; Unix: ENOENT,
\* ENXIO, ENOMEDIUM; either resolver failure), or something else
Cause(f) ==
    CASE f.site \in WinSites ->
            (IF f.code = 5 THEN "privilege"
             ELSE IF f.code \in {2, 21} THEN "unavailable" ELSE "other")
      [] f.site \in UnixSites ->
            (IF f.code \in {1, 13} THEN "privilege"
             ELSE IF f.code \in {2, 6, 123} THEN "unavailable" ELSE "other")
      [] f.site = "resolve" -> "unavailable"
      [] OTHER -> "other"

\* C19: format_error gives the permission hint when opening, locking or
\* writing the device failed for lack of privilege, on Windows and Unix
\* alike; the not-found / not-ready hint when the device cannot be found or
\* is not ready, both resolver failures included; and the underlying message
\* unchanged for every other failure, interruption by the user included.
C19_ErrorHints ==
    (call.fn = "format_error" /\ ret.done) =>
    LET f == call.failure IN
    /\ (Cause(f) = "privilege" /\ f.site \in {"CreateFileW", "lock", "WriteFile", "os.open", "os.write"})
          => ret.val = PermissionHint
    /\ Cause(f) = "unavailable" => ret.val = NotFoundHint
    /\ Cause(f) = "other" => ret.val = Propagated(f).msg

\* ---------------------------------------------------------------------- C20
\* the calls of the current invocation that act on the device
DeviceCalls == SelectSeq(trace, LAMBDA x : x.ev \in {"open"} \cup HandleCalls)

\* C20: a successful Windows operation issues open, lock, dismount, its chunk
\* writes, flush, unlock, close, each but the writes exactly once and in this
\* order; in every Windows run flush comes after the last write and before
\* unlock, unlock is attempted before close, and nothing follows close.
C20_WindowsCallOrder ==
    IsWindows =>
    LET D == DeviceCalls IN
    /\ Result = "ok" =>
          /\ Len(D) >= 6
          /\ D[1].ev = "open" /\ D[2].ev = "lock" /\ D[3].ev = "dismount"
          /\ \A i \in 4..(Len(D) - 3) : D[i].ev = "write"
          /\ D[Len(D) - 2].ev = "flush"
          /\ D[Len(D) - 1].ev = "unlock"
          /\ D[Len(D)].ev = "close"
    /\ \A f \in Idx("flush") :
          /\ \A w \in Idx("write") : w < f
          /\ \A u \in Idx("unlock") : f < u
    /\ Cardinality(Idx("unlock")) <= 1
    /\ \A c \in Idx("close") :
          /\ c = Len(trace)
          /\ \E u \in Idx("unlock") : u < c

\* a Windows write of two chunks returned success
C20_Witness ==
    /\ IsWindows /\ Result = "ok" /\ op = "write"
    /\ Len(DeviceCalls) = 8

\* ---------------------------------------------------------------------- C21
\* C21: progress_cb is called once for every chunk write that returned, as
\* the very next call of the core and hence before the next poll, with the
\* running total of the bytes accepted so far; it is never called after a
\* write that failed, before the first write, or once flush, sync or
\* teardown has begun.
C21_ProgressPerChunk ==
    LET T == CoreTrace IN
    /\ \A i \in 1..Len(T) :
        /\ T[i].ev = "progress_cb" =>
              /\ i > 1 /\ T[i - 1].ev = "write" /\ T[i - 1].ok
              /\ LET k == Cardinality({j \in 1..i : T[j].ev = "write"}) IN
                 T[i].a = Accepted(WriteCalls, k)
        /\ (T[i].ev = "write" /\ T[i].ok) =>
              IF i = Len(T) THEN pc = "progress" ELSE T[i + 1].ev = "progress_cb"
        /\ (T[i].ev \in {"flush", "fsync", "unlock", "close"} \/ (T[i].ev = "write" /\ ~T[i].ok)) =>
              \A j \in (i + 1)..Len(T) : T[j].ev # "progress_cb"
    /\ Len(ProgressCalls) <= Cardinality({i \in 1..Len(WriteCalls) : WriteCalls[i].ok})

\* two chunks were written and reported, then the third write failed
C21_Witness ==
    /\ pc = "done"
    /\ Len(WriteCalls) = 3 /\ ~WriteCalls[3].ok
    /\ Len(ProgressCalls) = 2

\* ---------------------------------------------------------------------- C22
\* C22: on Unix the unmount is attempted at most once and before the open;
\* whatever its outcome, the next call of the core is the open and no error
\* is pending; on Linux it names the path that is opened, on macOS the
\* buffered node /dev/disk... of the raw /dev/rdisk... that is opened.  On
\* Windows it is never attempted.
C22_UnmountBestEffort ==
    LET T == CoreTrace
        dev == T[1].a     \* what the resolver returned
    IN
    /\ IsWindows => Idx("umount") = {}
    /\ ~IsWindows =>
        /\ Cardinality(Idx("umount")) <= 1
        /\ \A i \in 1..Len(T) :
            /\ T[i].ev = "open" => i > 1 /\ T[i - 1].ev = "umount"
            /\ T[i].ev = "umount" =>
                  /\ T[1].ev = "resolve"
                  /\ IF i = Len(T) THEN pc = "open" /\ exc = NoExc
                     ELSE T[i + 1].ev = "open"
                  /\ plat = "linux" => T[i].a = dev
                  /\ plat = "macos" =>
                        /\ SubSeq(dev, 1, 2) = <<"/dev/r", "disk">>
                        /\ T[i].a = <<"/dev/", "disk">> \o SubSeq(dev, 3, Len(dev))
            /\ T[i].ev = "open" =>
                  /\ T[i].a = dev
                  /\ plat = "macos" => SubSeq(T[i].a, 1, 2) = <<"/dev/r", "disk">>

\* on macOS the unmount failed and the operation still returned success
C22_Witness ==
    /\ plat = "macos" /\ Result = "ok" /\ written_total = 3
    /\ \E u \in Idx("umount") : ~trace[u].ok /\ trace[u].a = <<"/dev/", "disk", "2">>
    /\ \E o \in Idx("open") : trace[o].ok /\ trace[o].a = <<"/dev/r", "disk", "2">>

\* ---------------------------------------------------------------------- C23
\* C23: after a chunk write that failed the core issues nothing but the
\* teardown calls (no write, flush, sync, poll or progress call), the
\* teardown runs once, the operation fails with the write error, and the
\* device holds what the earlier writes accepted.
C23_WriteFailureStops ==
    LET T == CoreTrace IN
    \A i \in 1..Len(T) :
        (T[i].ev = "write" /\ ~T[i].ok) =>
            /\ \A j \in (i + 1)..Len(T) : T[j].ev \in {"unlock", "close"}
            /\ Cardinality(Idx("close")) <= 1
            /\ Cardinality(Idx("unlock")) <= 1
            /\ Len(device) = Accepted(WriteCalls, Len(WriteCalls))
            /\ pc = "done" =>
                  /\ Result = "WriteError"
                  /\ Cardinality(Idx("close")) = 1
                  /\ IsWindows => Cardinality(Idx("unlock")) = 1

\* ---------------------------------------------------------------------- C24
\* a row of the inventory that is a writable removable disk of floppy size
RowQualifies(row) ==
    /\ Len(row) >= 5
    /\ row[2].num /\ row[3].num /\ row[5].num
    /\ row[4] = Txt("disk") /\ row[3].v = 1 /\ row[5].v = 0
    /\ row[2].v \in {737280, 1474560, 2949120, 901120}

\* C24: on an lsblk listing (a header line, then one row per device) Linux
\* discovery returns /dev/<name> of the first row that is a disk, removable,
\* not read-only and of one of the four floppy sizes, skipping every other
\* row, and returns nothing exactly when no row qualifies or lsblk failed.
C24_LinuxFirstQualifying ==
    (call.fn = "linux_find" /\ ret.done) =>
    LET lines == SelectSeq(call.lsblk.lines, LAMBDA ln : ln # << >>)
        rows == IF call.lsblk.ok /\ lines # << >> THEN Tail(lines) ELSE << >>
        Q == {i \in 1..Len(rows) : RowQualifies(rows[i])}
    IN
    (lines # << >> => Head(lines) = LsblkHeader) =>
        /\ ret.val.raised = "none"
        /\ ret.val.found <=> Q # {}
        /\ Q # {} => LET first == CHOOSE i \in Q : \A j \in Q : i <= j IN
                     ret.val.path = <<"/dev/", rows[first][1].s>>

\* a fixed disk of floppy size is skipped and the Amiga-sized one after it found
C24_Witness ==
    /\ call.fn = "linux_find" /\ ret.done
    /\ call.lsblk = Lsblk(<<LsblkHeader,
                            Row("sda", Num(FLOPPY_720K), Num(0), "disk", Num(0)),
                            Row("sdc", Num(AMIGA_ADF_880K), Num(1), "disk", Num(0))>>)
    /\ ret.val = Found(<<"/dev/", "sdc">>)

\* ---------------------------------------------------------------------- C25
\* the disks and partitions a listing reports, in listing order
RECURSIVE Flatten(_)
Flatten(es) ==
    IF es = << >> THEN << >> ELSE <<Head(es)>> \o Head(es).parts \o Flatten(Tail(es))

\* an entry with an identifier and an integer size of floppy size
EntryQualifies(e) ==
    /\ e.kind = "dict" /\ e.id # << >> /\ e.size.num
    /\ e.size.v \in {737280, 1474560, 2949120, 901120}

\* C25: macOS discovery returns /dev/r<identifier> of the first disk or
\* partition of the listing that has an identifier and an integer size equal
\* to one of the four floppy sizes, and returns nothing exactly when none
\* qualifies.
C25_MacFirstQualifying ==
    (call.fn = "mac_find" /\ ret.done) =>
    LET o == call.plist
        E == IF o.ok /\ o.root = "dict" /\ o.disks = "list" THEN Flatten(o.entries) ELSE << >>
        Q == {i \in 1..Len(E) : EntryQualifies(E[i])}
    IN
    /\ ret.val.raised = "none"
    /\ ret.val.found <=> Q # {}
    /\ Q # {} => LET first == CHOOSE i \in Q : \A j \in Q : i <= j IN
                 ret.val.path = <<"/dev/r">> \o E[first].id

\* -------------------------------------------------------------- termination
\* The core on an object built with any chunk size int(chunk_size) accepts,
\* zero and negative ones included; `trace` is not kept, so that a loop which
\* repeats itself returns to the same state.
InitTerm ==
    /\ plat \in Platforms
    /\ chunk_size \in (-1)..MaxChunk
    /\ CoreIdle
    /\ call = NoCall
    /\ ret = Pending
    /\ recording = FALSE
    /\ gui = NoGui

\* a step of the thread that is inside the core
CoreStep ==
    \/ resolve_device_path
    \/ stat_image
    \/ log_target
    \/ unix_unmount_best_effort
    \/ open_device
    \/ lock_volume
    \/ dismount_volume
    \/ begin_transfer
    \/ loop_test
    \/ poll_stop
    \/ read_chunk
    \/ zero_chunk
    \/ write_chunk
    \/ progress_cb
    \/ flush
    \/ fsync
    \/ log_done
    \/ unlock_volume
    \/ close_device

NextTerm ==
    \/ write_image
    \/ format_zero_fill
    \/ CoreStep
    \/ request_stop
    \/ clear_stop

\* every call the core makes returns: the thread inside the core keeps going
SpecTerm == InitTerm /\ [][NextTerm]_vars /\ WF_vars(CoreStep)

\* ---------------------------------------------------------------------- C26
\* C26: every invocation that has been entered eventually ends, whatever the
\* chunk size the object was built with.
C26_Terminates == (pc \notin {"idle", "done"}) ~> (pc = "done")

\* ---------------------------------------------------------------------- C27
\* C27: when the resolver fails, or the size of the source image cannot be
\* read, the invocation is over at once and has made no other call: no
\* unmount, open, lock or dismount and no log_cb, stop_cb or progress_cb
\* call; the device is untouched.
C27_EarlyFailureNoEffect ==
    \A i \in 1..Len(trace) :
        (trace[i].ev \in {"resolve", "stat"} /\ ~trace[i].ok) =>
            /\ pc = "done"
            /\ i = Len(trace)
            /\ Result \in {"DeviceNotFound", "AttributeError", "StatError"}
            /\ \A j \in 1..(i - 1) :
                  \/ trace[j].ev = "request_stop"
                  \/ trace[j].ev = "resolve" /\ trace[j].ok /\ trace[i].ev = "stat"
            /\ device = << >>

\* the target was resolved, then reading the image size failed
C27_Witness ==
    /\ Result = "StatError"
    /\ Len(CoreTrace) = 2
    /\ CoreTrace[1].ev = "resolve" /\ CoreTrace[1].ok
    /\ CoreTrace[2].ev = "stat" /\ ~CoreTrace[2].ok

\* ------------------------------------------------------------------ the GUI
\* FloppyForgeApp around the core.  gui.busy: Write and Format disabled, Stop
\* enabled (_set_ui_busy); gui.current_op: _current_op; gui.th: the worker
\* threads started so far, the last one being _worker_thread; gui.queue: the
\* callbacks handed to self.after(0, ...) and not yet run, in order;
\* gui.polls: _poll_thread timers pending.  The flag _stop_requested is the
\* variable stop_requested.  Inside a worker the core is seen from outside:
\* it calls progress_cb and log_cb some number of times, then returns or
\* raises.
MaxEvents == 2       \* callbacks one invocation of the core makes

\* a worker thread: where it is ("running" inside the core, "finishing" once
\* its completion is scheduled, "dead"), how the core call ended, callbacks
\* made, whether Stop was clicked since it was started, completions of it run
Thread(st, outcome, sent, asked, nfin) ==
    [st |-> st, outcome |-> outcome, sent |-> sent, asked |-> asked, nfin |-> nfin]

\* threading.Thread.is_alive()
IsAlive_Never(t) == FALSE

IsAlive(t) == t.st # "dead"

\* self._worker_thread and self._worker_thread.is_alive()
WorkerAlive == gui.th # << >> /\ IsAlive(gui.th[Len(gui.th)])

\* the completion a worker schedules: _finish_ok in the try body after the
\* core call, _finish_err in the except clause
Completion_Both(outcome, id) ==
    <<[kind |-> "finish_ok", id |-> id], [kind |-> "finish_err", id |-> id]>>

Completion(outcome, id) ==
    IF outcome = "returned" THEN <<[kind |-> "finish_ok", id |-> id]>>
    ELSE <<[kind |-> "finish_err", id |-> id]>>

\* self._stop_requested = False in start_write / start_format
StartFlag_Kept(flag) == flag

StartFlag(flag) == FALSE

InitGui ==
    /\ plat = "linux"
    /\ chunk_size = 1
    /\ CoreIdle
    /\ call = NoCall
    /\ ret = Pending
    /\ recording = TRUE
    /\ gui = [on |-> TRUE, busy |-> FALSE, current_op |-> "idle", th |-> << >>,
              queue |-> << >>, polls |-> 0]

\* everything but gui and the stop flag
GuiFrame == <<plat, chunk_size, op, src, size, total, pc, fpos, buf, written_total,
              device, stop_at_call, exc, trace, nops, target, call, ret, recording>>

\* what both start handlers do once the checks are passed and the user has
\* confirmed: _set_ui_busy(True), _current_op, the new thread, the poll timer
Started(o) ==
    [gui EXCEPT !.busy = TRUE,
                !.current_op = o,
                !.th = Append(@, Thread("running", "none", 0, FALSE, 0)),
                !.polls = @ + 1]

\* start_write, run by a click on the enabled Write button: it returns at
\* once if a worker is alive, if a check fails or if the user declines
start_write ==
    /\ ~gui.busy
    /\ Len(gui.th) < MaxOps
    /\ \E proceed \in BOOLEAN :
        IF WorkerAlive \/ ~proceed
          THEN UNCHANGED <<gui, stop_requested>>
          ELSE /\ stop_requested' = StartFlag(stop_requested)
               /\ gui' = Started("write")
    /\ UNCHANGED GuiFrame

\* start_format, run by a click on the enabled Format button
start_format ==
    /\ ~gui.busy
    /\ Len(gui.th) < MaxOps
    /\ \E proceed \in BOOLEAN :
        IF WorkerAlive \/ ~proceed
          THEN UNCHANGED <<gui, stop_requested>>
          ELSE /\ stop_requested' = StartFlag(stop_requested)
               /\ gui' = Started("format")
    /\ UNCHANGED GuiFrame

\* request_stop, run by a click on the enabled Stop button
stop_click ==
    /\ gui.busy
    /\ stop_requested' = TRUE
    /\ gui' = [gui EXCEPT !.th = [i \in 1..Len(@) |->
                                    IF i = Len(@) THEN [@[i] EXCEPT !.asked = TRUE] ELSE @[i]]]
    /\ UNCHANGED GuiFrame

\* _core_log_cb / _progress_cb called by the core inside worker id, the
\* target line first and the progress of each chunk after it:
\* self.after(0, self.log_line, ...) / self.after(0, self._update_progress, ...)
worker_callback(id) ==
    /\ gui.th[id].st = "running"
    /\ gui.th[id].sent < MaxEvents
    /\ LET k == IF gui.th[id].sent = 0 THEN "log" ELSE "progress" IN
       gui' = [gui EXCEPT !.th[id].sent = @ + 1,
                          !.queue = Append(@, [kind |-> k, id |-> id])]
    /\ UNCHANGED <<GuiFrame, stop_requested>>

\* the core call of worker id returns, raises, or raises the interruption
\* after stop_cb returned true; the worker schedules the completion
worker_finish(id) ==
    /\ gui.th[id].st = "running"
    /\ \E outcome \in {"returned", "raised", "interrupted"} :
        /\ outcome = "interrupted" => stop_requested
        /\ gui' = [gui EXCEPT !.th[id].st = "finishing",
                              !.th[id].outcome = outcome,
                              !.queue = @ \o Completion(outcome, id)]
    /\ UNCHANGED <<GuiFrame, stop_requested>>

\* the thread function of worker id returns
worker_exit(id) ==
    /\ gui.th[id].st = "finishing"
    /\ gui' = [gui EXCEPT !.th[id].st = "dead"]
    /\ UNCHANGED <<GuiFrame, stop_requested>>

\* the GUI thread runs the oldest callback scheduled with after(0, ...)
dispatch ==
    /\ gui.queue # << >>
    /\ LET e == Head(gui.queue) IN
       gui' = [gui EXCEPT !.queue = Tail(@),
                          !.th[e.id].nfin = IF e.kind \in {"finish_ok", "finish_err"}
                                              THEN @ + 1 ELSE @]
    /\ UNCHANGED <<GuiFrame, stop_requested>>

\* _poll_thread
poll_thread ==
    /\ gui.polls > 0
    /\ IF WorkerAlive
         THEN UNCHANGED gui
         ELSE gui' = [gui EXCEPT !.busy = FALSE, !.current_op = "idle", !.polls = @ - 1]
    /\ UNCHANGED <<GuiFrame, stop_requested>>

NextGui ==
    \/ start_write
    \/ start_format
    \/ stop_click
    \/ \E id \in 1..Len(gui.th) : worker_callback(id)
    \/ \E id \in 1..Len(gui.th) : worker_finish(id)
    \/ \E id \in 1..Len(gui.th) : worker_exit(id)
    \/ dispatch
    \/ poll_thread

\* the timer of _poll_thread fires as long as the main loop runs
SpecGui == InitGui /\ [][NextGui]_vars /\ WF_vars(poll_thread)

\* ------------------------------------------------------------------ C28
\* the workers that are alive
Alive == {id \in 1..Len(gui.th) : gui.th[id].st # "dead"}

\* the workers inside write_image / format_zero_fill
InCore == {id \in 1..Len(gui.th) : gui.th[id].st = "running"}

\* C28: in the GUI at most one worker is alive at any time, so at most one
\* core invocation runs; a worker is started only when none is alive; and
\* from the start of an operation until the poll has seen the worker dead
\* Write and Format are disabled: while a worker is alive or a poll is
\* pending the GUI is busy, and it is busy exactly while a poll is pending
C28_OneOperation ==
    /\ Cardinality(Alive) <= 1
    /\ Cardinality(InCore) <= 1
    /\ Alive # {} => Alive = {Len(gui.th)}
    /\ Alive # {} => gui.busy
    /\ gui.busy <=> gui.polls = 1
    /\ gui.polls <= 1
    /\ gui.busy => gui.current_op \in {"write", "format"}

\* a second operation runs after the first one ended and was seen to end,
\* with Write and Format disabled
C28_Witness ==
    /\ Len(gui.th) = 2
    /\ gui.th[1].st = "dead"
    /\ gui.th[2].st = "running"
    /\ gui.busy

\* ------------------------------------------------------------------ C29
Completions == {"finish_ok", "finish_err"}

\* the places in the queue of the completions / of the updates of worker id
QueuedCompletions(id) ==
    {i \in 1..Len(gui.queue) : gui.queue[i].id = id /\ gui.queue[i].kind \in Completions}

QueuedUpdates(id) ==
    {i \in 1..Len(gui.queue) : gui.queue[i].id = id /\ gui.queue[i].kind \notin Completions}

CompletionOrder ==
    \A id \in 1..Len(gui.th) :
        LET t == gui.th[id] IN
        /\ t.st = "running" => QueuedCompletions(id) = {} /\ t.nfin = 0
        /\ t.st # "running" => Cardinality(QueuedCompletions(id)) + t.nfin = 1
        /\ \A i \in QueuedCompletions(id) :
              gui.queue[i].kind = IF t.outcome = "returned" THEN "finish_ok" ELSE "finish_err"
        /\ \A i \in QueuedCompletions(id) : \A j \in QueuedUpdates(id) : j < i
        /\ t.nfin > 0 => QueuedUpdates(id) = {}

\* a step taken by a worker thread: a worker moves on or makes a callback
WorkerStep ==
    /\ Len(gui'.th) = Len(gui.th)
    /\ \E id \in 1..Len(gui.th) :
          gui'.th[id].st # gui.th[id].st \/ gui'.th[id].sent # gui.th[id].sent

\* C29: every worker schedules exactly one completion, _finish_ok if the core
\* call returned and _finish_err if it raised or was interrupted, never both
\* and none while the core call runs; the completion is queued behind every
\* update of the same operation, so once it has run no update of that
\* operation is left to run; and a step of a worker only adds to the queue:
\* it changes neither the buttons, the current operation, the stop flag nor
\* the timers
C29_OneCompletion ==
    /\ []CompletionOrder
    /\ [][WorkerStep =>
            /\ gui'.busy = gui.busy
            /\ gui'.current_op = gui.current_op
            /\ gui'.polls = gui.polls
            /\ stop_requested' = stop_requested
            /\ Len(gui'.queue) >= Len(gui.queue)
            /\ SubSeq(gui'.queue, 1, Len(gui.queue)) = gui.queue]_vars

\* one operation that returned and one that was interrupted after an update,
\* the completion of each run
C29_Witness ==
    /\ Len(gui.th) = 2
    /\ gui.th[1].outcome = "returned" /\ gui.th[1].nfin = 1
    /\ gui.th[2].outcome = "interrupted" /\ gui.th[2].sent = MaxEvents /\ gui.th[2].nfin = 1
    /\ gui.queue = << >>

\* ------------------------------------------------------------------ C30
\* Write and Format enabled, Stop disabled, no current operation
GuiIdle == ~gui.busy /\ gui.current_op = "idle"

\* C30: once the worker of the operation last started has ended, however
\* the core call ended, the GUI eventually is idle again; every start of a
\* worker leaves the stop flag false, so a worker is interrupted only if Stop
\* was clicked after it was started
C30_BackToIdle ==
    /\ (gui.th # << >> /\ gui.th[Len(gui.th)].st = "dead") ~> GuiIdle
    /\ [][Len(gui'.th) > Len(gui.th) => stop_requested' = FALSE]_vars
    /\ [](\A id \in 1..Len(gui.th) : gui.th[id].outcome = "interrupted" => gui.th[id].asked)

\* Stop was clicked during the first operation, which ran to its end; the
\* second one, started with the flag still set, ran to its end too and the
\* GUI is idle
C30_Witness ==
    /\ Len(gui.th) = 2
    /\ gui.th[1].asked /\ gui.th[1].outcome = "returned"
    /\ ~gui.th[2].asked /\ gui.th[2].outcome = "returned" /\ gui.th[2].st = "dead"
    /\ GuiIdle
====
